---- MODULE Spec2Model ----
(***************************************************************************)
(* Approvals API (src/main.py): a FastAPI service over one MongoDB         *)
(* collection, "approvalitem".  The collection is a sequence of documents  *)
(* in insertion order.  Optional values (Python None / a missing JSON      *)
(* field) are sets: {} is None, {v} is the value v.  Strings that the code *)
(* parses (the path id) are sequences of one-character strings.            *)
(*                                                                         *)
(* Spec    : requests are served one after the other, a handler is one     *)
(*           step.                                                         *)
(* ConcSpec: NumProcs workers serve requests at the same time; every       *)
(*           store call of a handler is a step of its own.                 *)
(***************************************************************************)
EXTENDS Integers, Sequences, FiniteSets, TLC

VARIABLES
  dbAvailable,  \* db is not None (database.py connected at import)
  coll,         \* db["approvalitem"]: the documents, in insertion order
  now,          \* the wall clock datetime.now(timezone.utc) reads
  nextId,       \* how many identifiers the store has generated, plus one
  resp,         \* Spec: the last request served and its response
  before,       \* Spec, history: coll as it was when that request arrived
  procs,        \* ConcSpec: what each worker is doing
  started       \* ConcSpec: requests started so far

vars == <<dbAvailable, coll, now, nextId, resp, before, procs, started>>

(***************************** bounds **************************************)
MaxClock == 1      \* the wall clock takes the values 0..MaxClock
MaxDocs == 2       \* no create request is issued beyond this many documents
MaxTargets == 1    \* approve/reject requests name one of the first ids
NumProcs == 2      \* concurrent workers of ConcSpec
MaxRequests == 3   \* requests started in a behaviour of ConcSpec

(************************* identifiers *************************************)
\* bson.ObjectId(str): 24 hexadecimal characters, either case
OidLen == 24

HexChars == <<"0","1","2","3","4","5","6","7","8","9","a","b","c","d","e","f">>

UpperHex == {"A","B","C","D","E","F"}

HexDigits == {HexChars[i] : i \in 1..Len(HexChars)} \cup UpperHex

IsHex(c) == c \in HexDigits

Lower(c) ==
  CASE c = "A" -> "a" [] c = "B" -> "b" [] c = "C" -> "c"
    [] c = "D" -> "d" [] c = "E" -> "e" [] c = "F" -> "f"
    [] OTHER -> c

\* ObjectId.is_valid on a str
OidValid(s) == Len(s) = OidLen /\ \A i \in 1..Len(s) : IsHex(s[i])

\* ObjectId(id_str): the 12 bytes the hex digits denote, kept as lower-case digits
ObjectId(s) == [i \in 1..Len(s) |-> Lower(s[i])]

\* str(ObjectId): the lower-case hex rendering
OidStr(o) == o

RECURSIVE ToHex(_, _)
ToHex(n, width) ==
  IF width = 0 THEN <<>>
  ELSE Append(ToHex(n \div 16, width - 1), HexChars[(n % 16) + 1])

\* the n-th identifier the store generates (n = 1, 2, ...); identifiers are
\* opaque, these end in a, b, c, ... so that they have an upper-case spelling
NewObjectId(n) == ToHex(n + 9, OidLen)

\* oid without the try/except: every string is taken for an identifier
oid_unchecked(s) == {ObjectId(s)}

\* oid(id_str): {} stands for HTTPException(400)
oid(s) == IF OidValid(s) THEN {ObjectId(s)} ELSE {}

(**************************** inputs ***************************************)
UpperLast(s) == [i \in 1..Len(s) |-> IF i = Len(s) THEN "A" ELSE s[i]]

BadChar(s) == [i \in 1..Len(s) |-> IF i = 1 THEN "g" ELSE s[i]]

\* path ids: the first ids the store hands out, the first one in upper case,
\* an id the store never hands out, a short string, a string with a non-hex digit
IdInputs ==
  {NewObjectId(k) : k \in 1..MaxTargets}
    \cup {UpperLast(NewObjectId(1)), NewObjectId(0),
          <<"a","b","c">>, BadChar(NewObjectId(1))}

Body(t, r, a, s) ==
  [title |-> t, description |-> {}, requester |-> r, amount |-> a, status |-> s]

\* JSON bodies of POST /api/approvals; status is a field the schema does not declare
CreateInputs ==
  { Body({"Desk"}, {"Sam"}, {}, {"approved"}),
    Body({""}, {""}, {0}, {}),
    Body({}, {"Sam"}, {300}, {}),
    Body({"Desk"}, {}, {}, {}),
    Body({"Desk"}, {"Sam"}, {-1}, {}) }

\* ?status= of GET /api/approvals; {} is the parameter left out
StatusInputs == {{}, {"pending"}, {"approved"}, {"rejected"}, {"bogus"}}

Statuses == {"pending", "approved", "rejected"}

The(S) == CHOOSE x \in S : TRUE

(************************ serialization ************************************)
\* serialize_item(doc): doc is {} (None) or {document}
serialize_item(doc) ==
  IF doc = {} THEN {}
  ELSE LET d == The(doc) IN
    {[id |-> OidStr(d._id), title |-> d.title, description |-> d.description,
      requester |-> d.requester, amount |-> d.amount, status |-> d.status,
      created_at |-> d.created_at, updated_at |-> d.updated_at]}

\* ApprovalItemIn: title and requester required str, amount None or >= 0
Validates(item) ==
  /\ item.title # {}
  /\ item.requester # {}
  /\ \A a \in item.amount : a >= 0

\* item.model_dump(): the declared fields only
model_dump(item) ==
  [title |-> The(item.title), description |-> item.description,
   requester |-> The(item.requester), amount |-> item.amount]

\* create_approval without data["status"] = "pending": the caller's status stays
CreateDataKeepStatus(item) ==
  LET data == model_dump(item) IN
  [title |-> data.title, description |-> data.description,
   requester |-> data.requester, amount |-> data.amount,
   status |-> IF item.status = {} THEN "pending" ELSE The(item.status)]

\* data = item.model_dump(); data["status"] = "pending"
CreateData(item) ==
  LET data == model_dump(item) IN
  [title |-> data.title, description |-> data.description,
   requester |-> data.requester, amount |-> data.amount, status |-> "pending"]

(*************************** the store *************************************)
\* database.create_document(collection, data): stamps created_at and
\* updated_at with the current time, inserts, returns the new id as a string
create_document(c, data, t, n) ==
  [coll |-> Append(c, [_id |-> NewObjectId(n), title |-> data.title,
                       description |-> data.description,
                       requester |-> data.requester, amount |-> data.amount,
                       status |-> data.status, created_at |-> t, updated_at |-> t]),
   id |-> OidStr(NewObjectId(n))]

\* positions of the documents matching {"_id": o}
Matching(c, o) == {k \in 1..Len(c) : c[k]._id = o}

\* collection.find_one({"_id": o}): {} is None
find_one(c, o) == {c[k] : k \in Matching(c, o)}

\* update_one with upsert=True: no match inserts a document
update_one_upsert(c, o, set) ==
  LET m == Matching(c, o) IN
  IF m = {}
    THEN [coll |-> Append(c, [_id |-> o, title |-> "", description |-> {},
                              requester |-> "", amount |-> {},
                              status |-> set.status, created_at |-> set.updated_at,
                              updated_at |-> set.updated_at]),
          matched_count |-> 0]
  ELSE LET k == CHOOSE i \in m : \A j \in m : i <= j IN
       [coll |-> [c EXCEPT ![k].status = set.status,
                           ![k].updated_at = set.updated_at],
        matched_count |-> 1]

\* update_many with the filter dropped: every document is set
update_one_many(c, o, set) ==
  [coll |-> [k \in 1..Len(c) |-> [c[k] EXCEPT !.status = set.status,
                                              !.updated_at = set.updated_at]],
   matched_count |-> IF Matching(c, o) = {} THEN 0 ELSE 1]

\* collection.update_one({"_id": o}, {"$set": set}): the first match only
update_one(c, o, set) ==
  LET m == Matching(c, o) IN
  IF m = {} THEN [coll |-> c, matched_count |-> 0]
  ELSE LET k == CHOOSE i \in m : \A j \in m : i <= j IN
       [coll |-> [c EXCEPT ![k].status = set.status,
                           ![k].updated_at = set.updated_at],
        matched_count |-> 1]

\* count_documents off by one: a single document counts as none
count_documents_less(c) == IF Len(c) = 0 THEN 0 ELSE Len(c) - 1

\* collection.count_documents({})
count_documents(c) == Len(c)

\* collection.find(filter): filter is {} (no condition) or {status}
find(c, filter) ==
  LET Keep(d) == filter = {} \/ d.status \in filter IN SelectSeq(c, Keep)

\* cursor.sort("created_at", -1): descending, ties in stored order
RECURSIVE InsertDesc(_, _)
InsertDesc(d, s) ==
  IF s = <<>> THEN <<d>>
  ELSE IF Head(s).created_at >= d.created_at
       THEN <<Head(s)>> \o InsertDesc(d, Tail(s))
       ELSE <<d>> \o s

RECURSIVE sort(_)
sort(s) ==
  IF s = <<>> THEN <<>>
  ELSE InsertDesc(s[Len(s)], sort(SubSeq(s, 1, Len(s) - 1)))

(************************** handler pieces *********************************)
\* {"$set": {"status": "approved", "updated_at": datetime.now(timezone.utc)}}
ApproveSet(t) == [status |-> "approved", updated_at |-> t]

\* the reject update stamped with the epoch instead of the current time
RejectSetEpoch(t) == [status |-> "rejected", updated_at |-> 0]

\* {"$set": {"status": "rejected", "updated_at": datetime.now(timezone.utc)}}
RejectSet(t) == [status |-> "rejected", updated_at |-> t]

StatusSet(op, t) == IF op = "approve" THEN ApproveSet(t) ELSE RejectSet(t)

Sample(t, d, r, a) ==
  [title |-> t, description |-> {d}, requester |-> r, amount |-> {a},
   status |-> "pending"]

\* samples of seed_data
Samples ==
  << Sample("Marketing Spend Q1", "Campaign boost on socials", "Ava", 1200),
     Sample("Laptop Purchase", "Designer MacBook Pro", "Leo", 2499),
     Sample("SaaS Renewal", "Analytics tool annual plan", "Mia", 780),
     Sample("Team Offsite", "Venue deposit", "Noah", 1500) >>

\* Query("pending", pattern="^(pending|approved|rejected)$"): {} is a 422
StatusParam(status) ==
  IF status = {} THEN {"pending"}
  ELSE IF status \subseteq Statuses THEN status ELSE {}

\* list_approvals with the status filter left out
filter_dict_none(status) == {}

\* filter_dict = {"status": status} if status else {}
filter_dict(status) == IF status # {} /\ The(status) # "" THEN status ELSE {}

\* for s in samples: create_document("approvalitem", s), from sample k on
RECURSIVE InsertSamples(_, _, _, _)
InsertSamples(c, k, t, n) ==
  IF k > Len(Samples) THEN c
  ELSE InsertSamples(create_document(c, Samples[k], t, n).coll, k + 1, t, n + 1)

(************************** requests, responses ****************************)
NoId == <<>>

Req(op, id, item, status) == [op |-> op, id |-> id, item |-> item, status |-> status]

Res(code, item, items, inserted) ==
  [code |-> code, item |-> item, items |-> items, inserted |-> inserted]

Error(code) == Res(code, {}, <<>>, 0)

Idle ==
  [pc |-> "idle", op |-> "none", id |-> NoId, o |-> NoId, ts |-> 0, k |-> 0,
   res |-> Error(0)]

Init ==
  /\ dbAvailable \in BOOLEAN
  /\ coll = <<>>
  /\ now = 0
  /\ nextId = 1
  /\ resp = [req |-> Req("none", NoId, {}, {}), res |-> Error(0)]
  /\ before = <<>>
  /\ procs = [p \in 1..NumProcs |-> Idle]
  /\ started = 0

\* the wall clock advances between any two steps, or does not
Tick ==
  /\ now < MaxClock
  /\ now' = now + 1
  /\ UNCHANGED <<dbAvailable, coll, nextId, resp, before, procs, started>>

(******************* Spec: one request at a time ***************************)
Reply(req, res) == resp' = [req |-> req, res |-> res] /\ before' = coll

list_approvals(status) ==
  LET req == Req("list", NoId, {}, status)
      st == StatusParam(status)
      docs == sort(find(coll, filter_dict(st)))
  IN /\ IF st = {} THEN Reply(req, Error(422))
        ELSE IF ~dbAvailable THEN Reply(req, Error(500))
        ELSE Reply(req, Res(200, {},
                     [i \in 1..Len(docs) |-> The(serialize_item({docs[i]}))], 0))
     /\ UNCHANGED <<dbAvailable, coll, now, nextId, procs, started>>

create_approval(item) ==
  LET req == Req("create", NoId, {item}, {}) IN
  /\ Len(coll) < MaxDocs
  /\ IF ~Validates(item)
       THEN Reply(req, Error(422)) /\ UNCHANGED <<coll, nextId>>
     ELSE IF ~dbAvailable
       THEN Reply(req, Error(500)) /\ UNCHANGED <<coll, nextId>>
     ELSE LET ins == create_document(coll, CreateData(item), now, nextId)
              doc == find_one(ins.coll, ObjectId(ins.id))
          IN /\ coll' = ins.coll
             /\ nextId' = nextId + 1
             /\ Reply(req, Res(201, serialize_item(doc), <<>>, 0))
  /\ UNCHANGED <<dbAvailable, now, procs, started>>

\* approve_item and reject_item differ in the status they set
SetStatus(op, item_id) ==
  LET req == Req(op, item_id, {}, {}) IN
  /\ IF ~dbAvailable THEN Reply(req, Error(500)) /\ UNCHANGED coll
     ELSE IF oid(item_id) = {} THEN Reply(req, Error(400)) /\ UNCHANGED coll
     ELSE LET upd == update_one(coll, The(oid(item_id)), StatusSet(op, now)) IN
          /\ coll' = upd.coll
          /\ IF upd.matched_count = 0 THEN Reply(req, Error(404))
             ELSE Reply(req, Res(200,
                    serialize_item(find_one(upd.coll, The(oid(item_id)))), <<>>, 0))
  /\ UNCHANGED <<dbAvailable, now, nextId, procs, started>>

approve_item(item_id) == SetStatus("approve", item_id)

reject_item(item_id) == SetStatus("reject", item_id)

seed_data ==
  LET req == Req("seed", NoId, {}, {}) IN
  /\ IF ~dbAvailable THEN Reply(req, Error(500)) /\ UNCHANGED <<coll, nextId>>
     ELSE IF count_documents(coll) > 0
       THEN Reply(req, Error(200)) /\ UNCHANGED <<coll, nextId>>
     ELSE /\ coll' = InsertSamples(coll, 1, now, nextId)
          /\ nextId' = nextId + Len(Samples)
          /\ Reply(req, Res(200, {}, <<>>, Len(Samples)))
  /\ UNCHANGED <<dbAvailable, now, procs, started>>

Next ==
  \/ Tick
  \/ \E status \in StatusInputs : list_approvals(status)
  \/ \E item \in CreateInputs : create_approval(item)
  \/ \E item_id \in IdInputs : approve_item(item_id)
  \/ \E item_id \in IdInputs : reject_item(item_id)
  \/ seed_data

Spec == Init /\ [][Next]_vars

(************* ConcSpec: workers interleave at the store calls *************)
Free(p) == procs[p].pc \in {"idle", "done"} /\ started < MaxRequests

Start(p, op, id, pc, o, ts, k) ==
  /\ procs' = [procs EXCEPT ![p] = [pc |-> pc, op |-> op, id |-> id, o |-> o,
                                     ts |-> ts, k |-> k, res |-> Error(0)]]
  /\ started' = started + 1

Finish(p, op, id, res) ==
  procs' = [procs EXCEPT ![p] = [pc |-> "done", op |-> op, id |-> id, o |-> NoId,
                                 ts |-> 0, k |-> 0, res |-> res]]

\* approve_item / reject_item up to the call of update_one: the db check and
\* the arguments, oid(item_id) and datetime.now(timezone.utc)
SetStatusBegin(p, op, item_id) ==
  /\ Free(p)
  /\ IF ~dbAvailable THEN Finish(p, op, item_id, Error(500)) /\ started' = started + 1
     ELSE IF oid(item_id) = {}
       THEN Finish(p, op, item_id, Error(400)) /\ started' = started + 1
     ELSE Start(p, op, item_id, "update", The(oid(item_id)), now, 0)
  /\ UNCHANGED <<dbAvailable, coll, now, nextId, resp, before>>

\* res = update_one(...); if res.matched_count == 0: raise 404
SetStatusUpdate(p) ==
  /\ procs[p].pc = "update"
  /\ LET upd == update_one(coll, procs[p].o, StatusSet(procs[p].op, procs[p].ts)) IN
     /\ coll' = upd.coll
     /\ IF upd.matched_count = 0
          THEN Finish(p, procs[p].op, procs[p].id, Error(404))
        ELSE procs' = [procs EXCEPT ![p].pc = "find"]
  /\ UNCHANGED <<dbAvailable, now, nextId, resp, before, started>>

\* doc = find_one({"_id": oid(item_id)}); return serialize_item(doc)
SetStatusFind(p) ==
  /\ procs[p].pc = "find"
  /\ procs[p].op \in {"approve", "reject"}
  /\ Finish(p, procs[p].op, procs[p].id,
            Res(200, serialize_item(find_one(coll, The(oid(procs[p].id)))), <<>>, 0))
  /\ UNCHANGED <<dbAvailable, coll, now, nextId, resp, before, started>>

\* create_approval up to the return of create_document
CreateBegin(p, item) ==
  /\ Free(p)
  /\ IF ~Validates(item)
       THEN /\ Finish(p, "create", NoId, Error(422))
            /\ started' = started + 1
            /\ UNCHANGED <<coll, nextId>>
     ELSE IF ~dbAvailable
       THEN /\ Finish(p, "create", NoId, Error(500))
            /\ started' = started + 1
            /\ UNCHANGED <<coll, nextId>>
     ELSE LET ins == create_document(coll, CreateData(item), now, nextId) IN
          /\ coll' = ins.coll
          /\ nextId' = nextId + 1
          /\ Start(p, "create", ins.id, "find", ObjectId(ins.id), 0, 0)
  /\ UNCHANGED <<dbAvailable, now, resp, before>>

\* doc = find_one({"_id": ObjectId(inserted_id)}); return serialize_item(doc)
CreateFind(p) ==
  /\ procs[p].pc = "find"
  /\ procs[p].op = "create"
  /\ Finish(p, "create", procs[p].id,
            Res(201, serialize_item(find_one(coll, procs[p].o)), <<>>, 0))
  /\ UNCHANGED <<dbAvailable, coll, now, nextId, resp, before, started>>

\* seed_data up to the loop: the db check and count_documents({})
SeedBegin(p) ==
  /\ Free(p)
  /\ IF ~dbAvailable THEN Finish(p, "seed", NoId, Error(500)) /\ started' = started + 1
     ELSE IF count_documents(coll) > 0
       THEN Finish(p, "seed", NoId, Error(200)) /\ started' = started + 1
     ELSE Start(p, "seed", NoId, "insert", NoId, 0, 1)
  /\ UNCHANGED <<dbAvailable, coll, now, nextId, resp, before>>

\* one turn of the loop, create_document("approvalitem", s); after the last
\* sample, return {"inserted": len(samples)}
SeedInsert(p) ==
  /\ procs[p].pc = "insert"
  /\ coll' = create_document(coll, Samples[procs[p].k], now, nextId).coll
  /\ nextId' = nextId + 1
  /\ IF procs[p].k = Len(Samples)
       THEN Finish(p, "seed", NoId, Res(200, {}, <<>>, Len(Samples)))
     ELSE procs' = [procs EXCEPT ![p].k = @ + 1]
  /\ UNCHANGED <<dbAvailable, now, resp, before, started>>

ConcNext ==
  \/ Tick
  \/ \E p \in 1..NumProcs, item_id \in IdInputs : SetStatusBegin(p, "approve", item_id)
  \/ \E p \in 1..NumProcs, item_id \in IdInputs : SetStatusBegin(p, "reject", item_id)
  \/ \E p \in 1..NumProcs : SetStatusUpdate(p)
  \/ \E p \in 1..NumProcs : SetStatusFind(p)
  \/ \E p \in 1..NumProcs, item \in CreateInputs : CreateBegin(p, item)
  \/ \E p \in 1..NumProcs : CreateFind(p)
  \/ \E p \in 1..NumProcs : SeedBegin(p)
  \/ \E p \in 1..NumProcs : SeedInsert(p)

ConcSpec == Init /\ [][ConcNext]_vars

(***************************** claims **************************************)
Op == resp.req.op

Code == resp.res.code

\* the body of the create request resp describes
Sent == The(resp.req.item)

\* the spec's well-formed id: 24 hexadecimal digits
WellFormedId(s) ==
  /\ Len(s) = 24
  /\ \A i \in 1..Len(s) :
       s[i] \in {"0","1","2","3","4","5","6","7","8","9","a","b","c","d","e","f",
                 "A","B","C","D","E","F"}

\* positions in collection c of the documents the path id s names
Named(c, s) == {k \in 1..Len(c) : c[k]._id = [i \in 1..Len(s) |-> Lower(s[i])]}

\* the create request has title and requester, and amount absent or >= 0
ValidCreate(item) ==
  item.title # {} /\ item.requester # {} /\ \A a \in item.amount : a >= 0

\* C1: a valid create request, whatever status the caller sends, is answered
\* 201 with an item of status pending, and the document it inserted (the
\* last of the collection, the one the response names) has status pending.
C1_CreateForcesPending ==
  (Op = "create" /\ dbAvailable /\ ValidCreate(Sent)) =>
    /\ Code = 201
    /\ Len(coll) = Len(before) + 1
    /\ coll[Len(coll)].status = "pending"
    /\ resp.res.item # {}
    /\ \A w \in resp.res.item :
         w.status = "pending" /\ w.id = OidStr(coll[Len(coll)]._id)

C1_Witness ==
  Op = "create" /\ Code = 201 /\ Sent.status = {"approved"} /\ Len(before) > 0

\* C2: a list request with status s (pending when left out) is answered with
\* exactly the stored documents whose status is s, each once, as serialized.
C2_ListExactlyMatching ==
  (Op = "list" /\ dbAvailable /\ resp.req.status \subseteq Statuses) =>
    LET s == IF resp.req.status = {} THEN "pending" ELSE The(resp.req.status)
        items == resp.res.items
        hits == {k \in 1..Len(coll) : coll[k].status = s}
    IN /\ Code = 200
       /\ Len(items) = Cardinality(hits)
       /\ \A i \in 1..Len(items) :
            /\ items[i].status = s
            /\ \E k \in hits : {items[i]} = serialize_item({coll[k]})
       /\ \A k \in hits : \E i \in 1..Len(items) : items[i].id = OidStr(coll[k]._id)

C2_Witness ==
  /\ Op = "list" /\ Code = 200 /\ resp.req.status = {"approved"}
  /\ Len(resp.res.items) >= 1
  /\ \E k \in 1..Len(coll) : coll[k].status = "pending"

\* C3: approving or rejecting a well-formed id that names no stored document
\* is answered 404 and leaves the collection as it was.
C3_NotFoundUnchanged ==
  (Op \in {"approve", "reject"} /\ dbAvailable /\ WellFormedId(resp.req.id)
     /\ Named(before, resp.req.id) = {}) =>
    Code = 404 /\ coll = before

C3_Witness ==
  Op = "approve" /\ Code = 404 /\ Len(coll) > 0 /\ WellFormedId(resp.req.id)

\* C4 as stated: a reject of an item whose last transition was an approve
\* leaves it rejected with an updated_at later than the approve's.
C4_RejectStrictlyLater ==
  (Op = "reject" /\ Code = 200) =>
    \A k \in Named(before, resp.req.id) :
      before[k].status = "approved" =>
        coll[k].status = "rejected" /\ coll[k].updated_at > before[k].updated_at

\* C4 amended: approve, then reject, leaves the item rejected with an
\* updated_at that is not earlier than the approve's (it is the same when the
\* clock reads the same for both requests).
C4_RejectNotEarlier ==
  (Op = "reject" /\ Code = 200) =>
    \A k \in Named(before, resp.req.id) :
      before[k].status = "approved" =>
        /\ coll[k].status = "rejected"
        /\ coll[k].updated_at >= before[k].updated_at

C4_Witness ==
  /\ Op = "reject" /\ Code = 200
  /\ \E k \in Named(before, resp.req.id) :
       /\ before[k].status = "approved"
       /\ coll[k].status = "rejected"
       /\ coll[k].updated_at > before[k].updated_at

\* C5: a seed request that finds the collection empty inserts the 4 samples
\* and reports 4; one that finds it non-empty (a second seed) changes
\* nothing and reports 0.
C5_SeedIdempotent ==
  (Op = "seed" /\ dbAvailable) =>
    /\ Code = 200
    /\ IF before = <<>>
         THEN /\ resp.res.inserted = 4
              /\ Len(coll) = 4
              /\ \A k \in 1..4 : coll[k].title = Samples[k].title
         ELSE resp.res.inserted = 0 /\ coll = before

\* a seed answered 0 on the untouched result of an earlier seed
C5_Witness ==
  /\ Op = "seed" /\ resp.res.inserted = 0 /\ coll = before /\ Len(coll) = 4
  /\ \A k \in 1..4 : coll[k].title = Samples[k].title /\ coll[k].status = "pending"

\* C6: a create request whose title or requester is missing or empty, or
\* whose amount is negative, is answered 422 and inserts nothing.
C6_CreateValidates ==
  (Op = "create" /\ (Sent.title \subseteq {""} \/ Sent.requester \subseteq {""}
                      \/ \E a \in Sent.amount : a < 0)) =>
    Code = 422 /\ coll = before

\* C7: with the store available, an approve or reject of an id that is not
\* well-formed is answered 400 and changes nothing; 404 only answers
\* well-formed ids that name no document.
C7_MalformedIs400 ==
  (Op \in {"approve", "reject"} /\ dbAvailable) =>
    /\ ~WellFormedId(resp.req.id) => (Code = 400 /\ coll = before)
    /\ Code = 404 => (WellFormedId(resp.req.id) /\ Named(before, resp.req.id) = {})
    /\ Code = 400 => ~WellFormedId(resp.req.id)

C7_Witness ==
  Op = "reject" /\ Code = 400 /\ Len(coll) > 0 /\ Len(resp.req.id) = 24

\* C8: no request removes a document; a document differs from what it was
\* before the request only if the request is a successful approve or reject
\* naming it, and then only in status and updated_at.
C8_Frame ==
  /\ Len(coll) >= Len(before)
  /\ \A k \in 1..Len(before) :
       \/ coll[k] = before[k]
       \/ /\ Op \in {"approve", "reject"}
          /\ Code = 200
          /\ k \in Named(before, resp.req.id)
          /\ coll[k] = [before[k] EXCEPT !.status = coll[k].status,
                                         !.updated_at = coll[k].updated_at]

C8_Witness ==
  /\ Op = "approve" /\ Code = 200 /\ Len(coll) >= 2
  /\ \E k \in 1..Len(before) : coll[k] # before[k]

\* C9: a worker's 200 response to approve carries status approved, and to
\* reject status rejected, whatever the other workers do.
C9_ResponseCarriesOwnStatus ==
  \A p \in 1..NumProcs :
    (procs[p].pc = "done" /\ procs[p].res.code = 200
       /\ procs[p].op \in {"approve", "reject"}) =>
      \A w \in procs[p].res.item :
        w.status = (IF procs[p].op = "approve" THEN "approved" ELSE "rejected")

IsSample(d) == \E k \in 1..Len(Samples) : d.title = Samples[k].title

\* C10: samples are only ever inserted into an empty collection, so the
\* sample documents are the first documents of the collection and there are
\* at most 4 of them, whatever the workers' interleaving.
C10_SeedOnlyWhenEmpty ==
  LET S == {k \in 1..Len(coll) : IsSample(coll[k])} IN
  S = 1..Cardinality(S) /\ Cardinality(S) <= 4
====
